---------------------------- MODULE Spec2Model ----------------------------
(***************************************************************************)
(* Model of the sequence-alignment engine of C6-Tools:                     *)
(*   src/C6-Align.gs   showAlignment, _formatAsArray, _buildMatrix,        *)
(*                     _traceback                                          *)
(*   src/playground.gs multipleSequenceAlignment, calculateDistanceMatrix, *)
(*                     calculateDistanceFromAlignment, constructGuideTree, *)
(*                     averageDistance, progressiveAlignment, align,       *)
(*                     formatMultipleAlignment                             *)
(*                                                                         *)
(* A JavaScript string is a sequence of one-character strings; a number is *)
(* an integer; an array is a sequence.  dp[i][j] of the source (0-based)   *)
(* is matrix[i+1][j+1] here.  An uncaught exception ends the call with     *)
(* status set to the error's name.                                         *)
(***************************************************************************)
EXTENDS Integers, Sequences, FiniteSets, TLC

VARIABLES
  op,               \* the entry point that was called
  input,            \* the sequence arguments as the caller passed them
  pc,               \* position inside the call
  status,           \* "running", "ok", or the name of the error thrown
  sequences,        \* the sequence arguments (seq1, seq2 or the batch)
  score,            \* <<matchScore, mismatchScore, gapScore>>
  chunking,         \* <<basePerChunk, chunksPerLine>>
  matrix,           \* dp matrix of the pairwise call in progress
  built,            \* number of times _buildMatrix was entered in this call
  start,            \* <<maxI, maxJ>>: the cell the traceback walk starts at
  walkI, walkJ,     \* i, j of the traceback walk
  seq1_aligned,     \* array pushed by the walk (reverse order)
  seq2_aligned,     \* array pushed by the walk (reverse order)
  broke,            \* the walk left its loop through the break statement
  alignment,        \* value returned by _traceback
  distanceMatrix,   \* N x N matrix of calculateDistanceMatrix
  clusters,         \* clusters of constructGuideTree
  merges,           \* completed iterations of the loop in progress
  guideTree,        \* guide tree handed to progressiveAlignment
  alignedSequences, \* profiles of progressiveAlignment
  output            \* the table returned by a formatter

vars == <<op, input, pc, status, sequences, score, chunking, matrix, built, start,
          walkI, walkJ, seq1_aligned, seq2_aligned, broke, alignment,
          distanceMatrix, clusters, merges, guideTree, alignedSequences,
          output>>

----------------------------------------------------------------------------
(* Bounds of the model *)

\* longest raw sequence handed to showAlignment
MaxLen == 3
\* longest sequence in a batch, and largest batch
MaxBatchLen == 1
MaxBatch == 3
\* largest distance matrix handed to constructGuideTree directly
MaxLeaves == 4
\* longest aligned string handed to a formatter directly, largest chunk sizes
MaxFmtLen == 3
MaxChunk == 2
\* longest sequence and longest existing profile handed to align directly
MaxSpliceLen == 2
MaxProfileLen == 3

\* raw input symbols: upper case, lower case, whitespace
RawAlphabet == {"A", "t", " "}
\* symbols after clean-up
Alphabet == {"A", "T"}
Gap == "-"

\* scoring parameters <<match, mismatch, gap>>; the first is the default
DefaultScore == <<1, -1, -1>>
ScoreSet == {DefaultScore, <<2, -1, -2>>, <<1, 0, 0>>, <<0, -1, 1>>}

\* defaults of basePerChunk and chunksPerLine
DefaultBasePerChunk == 10
DefaultChunksPerLine == 5

SeqsUpTo(S, n) == UNION {[1..k -> S] : k \in 0..n}

----------------------------------------------------------------------------
(* Generic helpers *)

Max2(a, b) == IF a >= b THEN a ELSE b

\* Math.max without its last argument: the floor at 0 is lost
MathMaxOfFirstThree(a, b, c, d) == Max2(Max2(a, b), c)

\* Math.max(a, b, c, d)
MathMax4(a, b, c, d) == Max2(Max2(a, b), Max2(c, d))

\* Array.prototype.reverse
Reverse(s) == [k \in 1..Len(s) |-> s[Len(s) + 1 - k]]

\* s with every element of every member appended in order
RECURSIVE Flatten(_)
Flatten(ss) == IF ss = <<>> THEN <<>> ELSE Head(ss) \o Flatten(Tail(ss))

\* Number.prototype.toString for n >= 0
Digit(d) == CASE d = 0 -> "0" [] d = 1 -> "1" [] d = 2 -> "2" [] d = 3 -> "3"
              [] d = 4 -> "4" [] d = 5 -> "5" [] d = 6 -> "6" [] d = 7 -> "7"
              [] d = 8 -> "8" [] OTHER -> "9"

RECURSIVE NumToString(_)
NumToString(n) == IF n < 10 THEN <<Digit(n)>>
               ELSE Append(NumToString(n \div 10), Digit(n % 10))

\* String.prototype.padStart(width, ' ')
RECURSIVE PadStart(_, _)
PadStart(str, width) ==
  IF Len(str) >= width THEN str ELSE PadStart(<<" ">> \o str, width)

\* str.slice(from, to) and str.substring(from, to) for 0 <= from <= to
Slice(str, from, to) ==
  LET hi == IF to > Len(str) THEN Len(str) ELSE to
  IN IF from >= hi THEN <<>> ELSE SubSeq(str, from + 1, hi)

----------------------------------------------------------------------------
(* cleanup: the sequence normaliser.  It strips whitespace, upper-cases    *)
(* and rejects an empty sequence.                                          *)

UpperCase(c) == CASE c = "a" -> "A" [] c = "t" -> "T" [] OTHER -> c

IsWhitespace(c) == c = " "

cleanup(raw) ==
  LET stripped == SelectSeq(raw, LAMBDA c : ~IsWhitespace(c))
      cleaned  == [k \in 1..Len(stripped) |-> UpperCase(stripped[k])]
  IN IF cleaned = <<>>
       THEN [err |-> "InvalidInput", val |-> <<>>]
       ELSE [err |-> "none", val |-> cleaned]

----------------------------------------------------------------------------
(* _buildMatrix *)

At(m, i, j) == m[i + 1][j + 1]

\* one row i >= 1 of the fill loop, left to right; prev is row i-1
RECURSIVE FillRow(_, _, _, _, _, _)
FillRow(row, prev, i, seq1, seq2, sc) ==
  LET j == Len(row)
  IN IF j > Len(seq2) THEN row
     ELSE LET match == prev[j] + (IF seq1[i] = seq2[j] THEN sc[1] ELSE sc[2])
              gap1  == prev[j + 1] + sc[3]
              gap2  == row[j] + sc[3]
          IN FillRow(Append(row, MathMax4(match, gap1, gap2, 0)),
                     prev, i, seq1, seq2, sc)

RECURSIVE FillRows(_, _, _, _)
FillRows(dp, seq1, seq2, sc) ==
  LET i == Len(dp)
  IN IF i > Len(seq1) THEN dp
     ELSE FillRows(Append(dp, FillRow(<<i * sc[3]>>, dp[i], i, seq1, seq2, sc)),
                   seq1, seq2, sc)

\* _buildMatrix(seq1, seq2, matchScore, mismatchScore, gapScore)
BuildMatrix(seq1, seq2, sc) ==
  FillRows(<<[j \in 1..(Len(seq2) + 1) |-> (j - 1) * sc[3]]>>, seq1, seq2, sc)

----------------------------------------------------------------------------
(* _traceback *)

\* the cells of an M x N matrix in the order of the two nested scan loops
RowMajor(M, N) == [k \in 1..(M * N) |-> <<(k - 1) \div N, (k - 1) % N>>]

\* the scan for the maximum: a cell replaces the best one only when it is
\* strictly larger; maxVal starts at -Infinity (has = FALSE)
RECURSIVE ScanFrom(_, _, _, _)
ScanFrom(m, cells, k, best) ==
  IF k > Len(cells) THEN best
  ELSE LET c == cells[k]
           v == At(m, c[1], c[2])
       IN IF ~best.has \/ v > best.maxVal
            THEN ScanFrom(m, cells, k + 1,
                          [has |-> TRUE, maxVal |-> v, maxI |-> c[1], maxJ |-> c[2]])
            ELSE ScanFrom(m, cells, k + 1, best)

\* the scan replaced by the corner of the matrix: the walk of a global
\* alignment starts at (M-1, N-1)
ScanMaxBottomRight(m) ==
  LET M == Len(m)
      N == Len(m[1])
  IN [has |-> TRUE, maxVal |-> At(m, M - 1, N - 1), maxI |-> M - 1, maxJ |-> N - 1]

ScanMax(m) ==
  LET M == Len(m)
      N == Len(m[1])
  IN ScanFrom(m, RowMajor(M, N), 1,
              [has |-> FALSE, maxVal |-> 0, maxI |-> M - 1, maxJ |-> N - 1])

\* DiagHolds with the match case forgotten: every pair scores a mismatch
DiagHoldsMismatchOnly(m, seq1, seq2, sc, i, j) ==
  /\ i > 0 /\ j > 0
  /\ At(m, i, j) = At(m, i - 1, j - 1) + sc[2]

\* the three tests of the walk at cell (i, j).  A predecessor outside the
\* matrix scores -Infinity, and -Infinity plus a score equals no cell.
DiagHolds(m, seq1, seq2, sc, i, j) ==
  /\ i > 0 /\ j > 0
  /\ At(m, i, j) = At(m, i - 1, j - 1)
                     + (IF seq1[i] = seq2[j] THEN sc[1] ELSE sc[2])

UpHolds(m, sc, i, j) == i > 0 /\ At(m, i, j) = At(m, i - 1, j) + sc[3]

LeftHolds(m, sc, i, j) == j > 0 /\ At(m, i, j) = At(m, i, j - 1) + sc[3]

\* WalkStep with the gap of the up-step not pushed onto seq2_aligned
WalkStepUpForgetsGap(w, m, seq1, seq2, sc) ==
  IF DiagHolds(m, seq1, seq2, sc, w.i, w.j)
    THEN [i |-> w.i - 1, j |-> w.j - 1,
          a1 |-> Append(w.a1, seq1[w.i]), a2 |-> Append(w.a2, seq2[w.j]),
          broke |-> FALSE]
  ELSE IF UpHolds(m, sc, w.i, w.j)
    THEN [i |-> w.i - 1, j |-> w.j,
          a1 |-> Append(w.a1, seq1[w.i]), a2 |-> w.a2,
          broke |-> FALSE]
  ELSE IF LeftHolds(m, sc, w.i, w.j)
    THEN [i |-> w.i, j |-> w.j - 1,
          a1 |-> Append(w.a1, Gap), a2 |-> Append(w.a2, seq2[w.j]),
          broke |-> FALSE]
  ELSE [w EXCEPT !.broke = TRUE]

\* one iteration of the while loop, on w = [i, j, a1, a2, broke]
WalkStep(w, m, seq1, seq2, sc) ==
  IF DiagHolds(m, seq1, seq2, sc, w.i, w.j)
    THEN [i |-> w.i - 1, j |-> w.j - 1,
          a1 |-> Append(w.a1, seq1[w.i]), a2 |-> Append(w.a2, seq2[w.j]),
          broke |-> FALSE]
  ELSE IF UpHolds(m, sc, w.i, w.j)
    THEN [i |-> w.i - 1, j |-> w.j,
          a1 |-> Append(w.a1, seq1[w.i]), a2 |-> Append(w.a2, Gap),
          broke |-> FALSE]
  ELSE IF LeftHolds(m, sc, w.i, w.j)
    THEN [i |-> w.i, j |-> w.j - 1,
          a1 |-> Append(w.a1, Gap), a2 |-> Append(w.a2, seq2[w.j]),
          broke |-> FALSE]
  ELSE [w EXCEPT !.broke = TRUE]

\* AlignmentObject with the two reverse() calls forgotten
AlignmentObjectNotReversed(a1, a2) ==
  [kind |-> "object", seq1_aligned |-> a1, seq2_aligned |-> a2]

\* the object returned by _traceback
AlignmentObject(a1, a2) ==
  [kind |-> "object", seq1_aligned |-> Reverse(a1), seq2_aligned |-> Reverse(a2)]

RECURSIVE WalkAll(_, _, _, _, _)
WalkAll(w, m, seq1, seq2, sc) ==
  IF w.broke \/ ~(w.i > 0 \/ w.j > 0) THEN w
  ELSE WalkAll(WalkStep(w, m, seq1, seq2, sc), m, seq1, seq2, sc)

\* the walk from its start cell to its end
WalkFrom(best, m, seq1, seq2, sc) ==
  WalkAll([i |-> best.maxI, j |-> best.maxJ, a1 |-> <<>>, a2 |-> <<>>,
           broke |-> FALSE], m, seq1, seq2, sc)

WalkResult(w) == AlignmentObject(w.a1, w.a2)

\* _traceback(seq1, seq2, matrix, ...) run to completion
Traceback(seq1, seq2, m, sc) == WalkResult(WalkFrom(ScanMax(m), m, seq1, seq2, sc))

----------------------------------------------------------------------------
(* _formatAsArray *)

\* chunkString(str, size): the slices [0,size), [size,2*size), ...
RECURSIVE ChunksFrom(_, _, _)

\* chunkString with the loop bound i + size <= str.length: the final
\* partial chunk is lost
RECURSIVE FullChunksFrom(_, _, _)
FullChunksFrom(str, size, from) ==
  IF from + size > Len(str) THEN <<>>
  ELSE <<Slice(str, from, from + size)>> \o FullChunksFrom(str, size, from + size)

chunkStringDropsPartial(str, size) == FullChunksFrom(str, size, 0)

ChunksFrom(str, size, from) ==
  IF from >= Len(str) THEN <<>>
  ELSE <<Slice(str, from, from + size)>> \o ChunksFrom(str, size, from + size)

chunkString(str, size) == ChunksFrom(str, size, 0)

create2DArray(str, lineSize, blockSize) ==
  LET lines == chunkString(str, lineSize)
  IN [k \in 1..Len(lines) |-> chunkString(lines[k], blockSize)]

\* SymbolAt with the gap test forgotten: a gap column is marked as a mismatch
SymbolAtNoGapTest(seq1, seq2, k) ==
  IF k <= Len(seq2) /\ seq1[k] = seq2[k] THEN "|" ELSE "x"

\* the symbol of column k (1-based); a column past the end of seq2 reads
\* undefined there, which equals no symbol
SymbolAt(seq1, seq2, k) ==
  IF k <= Len(seq2) /\ seq1[k] = seq2[k] THEN "|"
  ELSE IF seq1[k] = Gap \/ (k <= Len(seq2) /\ seq2[k] = Gap) THEN " "
  ELSE "x"

SymbolTrack(seq1, seq2) == [k \in 1..Len(seq1) |-> SymbolAt(seq1, seq2, k)]

\* the separator row pushed after every block
SeparatorRow == <<<<>>, <<>>, <<>>, <<>>, <<>>, <<>>>>

\* the four rows pushed for line k (1-based; i = k-1 in the source)
InterlacedRows(seq1Array, symbolsArray, seq2Array, lineSize, k) ==
  << <<<<>>>> \o seq1Array[k],
     <<NumToString((k - 1) * lineSize + 1)>> \o symbolsArray[k],
     <<<<>>>> \o seq2Array[k],
     SeparatorRow >>

\* _formatAsArray(alignment, basePerChunk, chunksPerLine)
FormatAsArray(al, basePerChunk, chunksPerLine) ==
  LET seq1 == al.seq1_aligned
      seq2 == al.seq2_aligned
      lineSize  == chunksPerLine * basePerChunk
      blockSize == basePerChunk
      seq1Array == create2DArray(seq1, lineSize, blockSize)
      seq2Array == create2DArray(seq2, lineSize, blockSize)
      symbolsArray == create2DArray(SymbolTrack(seq1, seq2), lineSize, blockSize)
  IN IF Len(seq2Array) < Len(seq1Array)
       \* seq2Array[i] is undefined: spreading it throws
       THEN [err |-> "TypeError", val |-> <<>>]
       ELSE [err |-> "none",
             val |-> Flatten([k \in 1..Len(seq1Array) |->
                       InterlacedRows(seq1Array, symbolsArray, seq2Array, lineSize, k)])]

----------------------------------------------------------------------------
(* Entry point showAlignment and the steps of _traceback *)

AlignUnchanged == UNCHANGED <<distanceMatrix, clusters, merges, guideTree,
                              alignedSequences>>

\* ShowAlignmentCleanup with seq2 handed on as it came
ShowAlignmentCleanupSeq1Only ==
  /\ pc = "sa_cleanup"
  /\ LET c1 == cleanup(sequences[1])
     IN IF c1.err # "none"
          THEN /\ status' = c1.err /\ pc' = "done" /\ UNCHANGED sequences
          ELSE /\ sequences' = <<c1.val, sequences[2]>>
               /\ pc' = "sa_build" /\ UNCHANGED status
  /\ UNCHANGED <<op, input, score, chunking, matrix, built, start, walkI, walkJ,
                 seq1_aligned, seq2_aligned, broke, alignment, output>>
  /\ AlignUnchanged

\* seq1 = cleanup(seq1); seq2 = cleanup(seq2)
ShowAlignmentCleanup ==
  /\ pc = "sa_cleanup"
  /\ LET c1 == cleanup(sequences[1])
         c2 == cleanup(sequences[2])
     IN IF c1.err # "none"
          THEN /\ status' = c1.err /\ pc' = "done" /\ UNCHANGED sequences
        ELSE IF c2.err # "none"
          THEN /\ status' = c2.err /\ pc' = "done"
               /\ sequences' = <<c1.val, sequences[2]>>
        ELSE /\ sequences' = <<c1.val, c2.val>>
             /\ pc' = "sa_build" /\ UNCHANGED status
  /\ UNCHANGED <<op, input, score, chunking, matrix, built, start, walkI, walkJ,
                 seq1_aligned, seq2_aligned, broke, alignment, output>>
  /\ AlignUnchanged

\* const matrix = _buildMatrix(seq1, seq2, ...)
ShowAlignmentBuild ==
  /\ pc = "sa_build"
  /\ matrix' = BuildMatrix(sequences[1], sequences[2], score)
  /\ built' = built + 1
  /\ pc' = "tb_scan"
  /\ UNCHANGED <<op, input, status, sequences, score, chunking, start, walkI, walkJ,
                 seq1_aligned, seq2_aligned, broke, alignment, output>>
  /\ AlignUnchanged

\* _traceback up to its while loop: the scan for the maximum cell
TracebackScan ==
  /\ pc = "tb_scan"
  /\ LET best == ScanMax(matrix)
     IN /\ start' = <<best.maxI, best.maxJ>>
        /\ walkI' = best.maxI
        /\ walkJ' = best.maxJ
  /\ seq1_aligned' = <<>>
  /\ seq2_aligned' = <<>>
  /\ broke' = FALSE
  /\ pc' = "tb_walk"
  /\ UNCHANGED <<op, input, status, sequences, score, chunking, matrix, built,
                 alignment, output>>
  /\ AlignUnchanged

\* one iteration of the while loop of _traceback
TracebackWalk ==
  /\ pc = "tb_walk"
  /\ ~broke
  /\ walkI > 0 \/ walkJ > 0
  /\ LET w == WalkStep([i |-> walkI, j |-> walkJ, a1 |-> seq1_aligned,
                        a2 |-> seq2_aligned, broke |-> FALSE],
                       matrix, sequences[1], sequences[2], score)
     IN /\ walkI' = w.i
        /\ walkJ' = w.j
        /\ seq1_aligned' = w.a1
        /\ seq2_aligned' = w.a2
        /\ broke' = w.broke
  /\ UNCHANGED <<op, input, pc, status, sequences, score, chunking, matrix, built,
                 start, alignment, output>>
  /\ AlignUnchanged

\* the return statement of _traceback
TracebackReturn ==
  /\ pc = "tb_walk"
  /\ broke \/ ~(walkI > 0 \/ walkJ > 0)
  /\ alignment' = AlignmentObject(seq1_aligned, seq2_aligned)
  /\ pc' = "sa_format"
  /\ UNCHANGED <<op, input, status, sequences, score, chunking, matrix, built, start,
                 walkI, walkJ, seq1_aligned, seq2_aligned, broke, output>>
  /\ AlignUnchanged

\* const output = _formatAsArray(alignment, ...); return output
ShowAlignmentFormat ==
  /\ pc = "sa_format"
  /\ LET r == FormatAsArray(alignment, chunking[1], chunking[2])
     IN /\ output' = r.val
        /\ status' = IF r.err = "none" THEN "ok" ELSE r.err
  /\ pc' = "done"
  /\ UNCHANGED <<op, input, sequences, score, chunking, matrix, built, start, walkI,
                 walkJ, seq1_aligned, seq2_aligned, broke, alignment>>
  /\ AlignUnchanged

NoAlignment == [kind |-> "object", seq1_aligned |-> <<>>, seq2_aligned |-> <<>>]

\* the state a call starts in, apart from its arguments
Fresh ==
  /\ status = "running"
  /\ matrix = <<>>
  /\ built = 0
  /\ start = <<0, 0>>
  /\ walkI = 0
  /\ walkJ = 0
  /\ seq1_aligned = <<>>
  /\ seq2_aligned = <<>>
  /\ broke = FALSE
  /\ alignment = NoAlignment
  /\ clusters = <<>>
  /\ merges = 0
  /\ alignedSequences = <<>>
  /\ output = <<>>

NoGuideTree == [defined |-> FALSE, nodes |-> <<>>]

InitAlign ==
  /\ op = "showAlignment"
  /\ pc = "sa_cleanup"
  /\ input \in SeqsUpTo(RawAlphabet, MaxLen) \X SeqsUpTo(RawAlphabet, MaxLen)
  /\ sequences = input
  /\ score \in ScoreSet
  /\ chunking = <<DefaultBasePerChunk, DefaultChunksPerLine>>
  /\ distanceMatrix = <<>>
  /\ guideTree = NoGuideTree
  /\ Fresh

NextAlign ==
  \/ ShowAlignmentCleanup
  \/ ShowAlignmentBuild
  \/ TracebackScan
  \/ TracebackWalk
  \/ TracebackReturn
  \/ ShowAlignmentFormat

SpecAlign == InitAlign /\ [][NextAlign]_vars

----------------------------------------------------------------------------
(* calculateDistanceFromAlignment, calculateDistanceMatrix *)

\* const [a, b] = v: array destructuring throws a TypeError unless v is
\* iterable; the object _traceback returns is not
Destructure(v) ==
  IF v.kind = "array"
    THEN [err |-> "none", val |-> v.elems]
    ELSE [err |-> "TypeError", val |-> <<>>]

\* the score added for column k (1-based); a column past the end of
\* alignedSeq2 reads undefined there
ColumnScore(alignedSeq1, alignedSeq2, sc, k) ==
  IF alignedSeq1[k] = Gap \/ (k <= Len(alignedSeq2) /\ alignedSeq2[k] = Gap)
    THEN sc[3]
  ELSE IF k > Len(alignedSeq2) \/ alignedSeq1[k] # alignedSeq2[k] THEN sc[2]
  ELSE sc[1]

RECURSIVE SumColumns(_, _, _, _)
SumColumns(alignedSeq1, alignedSeq2, sc, k) ==
  IF k > Len(alignedSeq1) THEN 0
  ELSE ColumnScore(alignedSeq1, alignedSeq2, sc, k)
         + SumColumns(alignedSeq1, alignedSeq2, sc, k + 1)

\* the loop of calculateDistanceFromAlignment on the destructured pair d
DistanceOf(d, sc) ==
  IF d.err # "none" THEN [err |-> d.err, val |-> 0]
  ELSE [err |-> "none", val |-> SumColumns(d.val[1], d.val[2], sc, 1)]

\* calculateDistanceFromAlignment(alignment, matchScore, mismatchScore, gapScore)
calculateDistanceFromAlignment(al, sc) == DistanceOf(Destructure(al), sc)

\* the index pairs (i, j), 0 <= i < j < n, in the order of the nested loops
IndexPairs(n) ==
  LET all == [k \in 1..(n * n) |-> <<(k - 1) \div n, (k - 1) % n>>]
  IN SelectSeq(all, LAMBDA q : q[1] < q[2])

\* const matrix = _buildMatrix(seq1, seq2, ...);
\* const alignment = _traceback(seq1, seq2, matrix, ...)
PairwiseAlignment(seq1, seq2, sc) ==
  Traceback(seq1, seq2, BuildMatrix(seq1, seq2, sc), sc)

\* the loops of calculateDistanceMatrix from the k-th pair on; nb counts
\* the calls of _buildMatrix
RECURSIVE DistanceLoop(_, _, _, _, _, _)

\* the end of the body of the inner loop, for the pair (i, j) and its distance
DistanceStore(seqs, sc, prs, k, dm, nb, i, j, distance) ==
  IF distance.err # "none"
    THEN [err |-> distance.err, val |-> dm, built |-> nb + 1]
    ELSE DistanceLoop(seqs, sc, prs, k + 1,
           [dm EXCEPT ![i + 1][j + 1] = distance.val,
                      ![j + 1][i + 1] = distance.val],
           nb + 1)

DistanceLoop(seqs, sc, prs, k, dm, nb) ==
  IF k > Len(prs) THEN [err |-> "none", val |-> dm, built |-> nb]
  ELSE DistanceStore(seqs, sc, prs, k, dm, nb, prs[k][1], prs[k][2],
         calculateDistanceFromAlignment(
           PairwiseAlignment(seqs[prs[k][1] + 1], seqs[prs[k][2] + 1], sc), sc))

\* calculateDistanceMatrix(sequences, matchScore, mismatchScore, gapScore)
calculateDistanceMatrix(seqs, sc) ==
  LET n == Len(seqs)
  IN DistanceLoop(seqs, sc, IndexPairs(n), 1,
                  [a \in 1..n |-> [b \in 1..n |-> 0]], 0)

----------------------------------------------------------------------------
(* constructGuideTree, averageDistance *)

RECURSIVE SumOver(_, _, _, _)
SumOver(cluster1, cluster2, dm, k) ==
  IF k > Len(cluster1) * Len(cluster2) THEN 0
  ELSE LET index1 == cluster1[((k - 1) \div Len(cluster2)) + 1]
           index2 == cluster2[((k - 1) % Len(cluster2)) + 1]
       IN dm[index1 + 1][index2 + 1] + SumOver(cluster1, cluster2, dm, k + 1)

\* averageDistance(cluster1, cluster2, distanceMatrix): the quotient
\* totalDistance / count, kept as the two numbers
averageDistance(cluster1, cluster2, dm) ==
  [total |-> SumOver(cluster1, cluster2, dm, 1),
   count |-> Len(cluster1) * Len(cluster2)]

\* Less with <= for <: the last of several equal pairs wins the scan
LessOrEqual(a, b) == a.total * b.count <= b.total * a.count

\* a < b for two quotients with positive counts
Less(a, b) == a.total * b.count < b.total * a.count

\* the scan of constructGuideTree for the closest pair of clusters;
\* minDistance starts at Infinity (has = FALSE), minIndex1/2 at -1
RECURSIVE ClosestFrom(_, _, _, _, _)
ClosestFrom(cl, dm, prs, k, best) ==
  IF k > Len(prs) THEN best
  ELSE LET i == prs[k][1]
           j == prs[k][2]
           distance == averageDistance(cl[i + 1], cl[j + 1], dm)
       IN IF ~best.has \/ Less(distance, best.minDistance)
            THEN ClosestFrom(cl, dm, prs, k + 1,
                   [has |-> TRUE, minDistance |-> distance,
                    minIndex1 |-> i, minIndex2 |-> j])
            ELSE ClosestFrom(cl, dm, prs, k + 1, best)

NoneFound == [has |-> FALSE, minDistance |-> [total |-> 0, count |-> 1],
              minIndex1 |-> -1, minIndex2 |-> -1]

ClosestClusters(cl, dm) == ClosestFrom(cl, dm, IndexPairs(Len(cl)), 1, NoneFound)

\* arr.splice(index, 1) for 0 <= index < arr.length
Splice1(arr, index) ==
  [k \in 1..(Len(arr) - 1) |-> IF k <= index THEN arr[k] ELSE arr[k + 1]]

\* MergeClusters with the splice forgotten: the second cluster stays
MergeClustersNoSplice(cl, minIndex1, minIndex2) ==
  [cl EXCEPT ![minIndex1 + 1] = cl[minIndex1 + 1] \o cl[minIndex2 + 1]]

\* the merge at the end of one iteration of constructGuideTree
MergeClusters(cl, minIndex1, minIndex2) ==
  LET mergedCluster == cl[minIndex1 + 1] \o cl[minIndex2 + 1]
  IN [Splice1(cl, minIndex2) EXCEPT ![minIndex1 + 1] = mergedCluster]

----------------------------------------------------------------------------
(* progressiveAlignment, align *)

\* a guide-tree entry: a number (leaf, members = <<index>>) or the array
\* [index1, index2] of a merged node
LeafNode(index) == [leaf |-> TRUE, members |-> <<index>>]

MergedNode(index1, index2) == [leaf |-> FALSE, members |-> <<index1, index2>>]

\* the array of numbers constructGuideTree returns, as a guide tree;
\* clusters[0] of an empty array is undefined
GuideTreeOf(cl) ==
  IF cl = <<>> THEN [defined |-> FALSE, nodes |-> <<>>]
  ELSE [defined |-> TRUE, nodes |-> [k \in 1..Len(cl[1]) |-> LeafNode(cl[1][k])]]

\* sequences[node]: an array used as index names no element
Lookup(seqs, node) ==
  IF node.leaf /\ node.members[1] >= 0 /\ node.members[1] < Len(seqs)
    THEN [defined |-> TRUE, val |-> seqs[node.members[1] + 1]]
    ELSE [defined |-> FALSE, val |-> <<>>]

\* _traceback(seq1, seq2, _buildMatrix(seq1, seq2, ...), ...) on two looked-up
\* sequences; _buildMatrix throws on the length of undefined
PairwiseCall(l1, l2, sc) ==
  IF ~l1.defined \/ ~l2.defined
    THEN [err |-> "TypeError", val |-> <<>>]
    ELSE [err |-> "none",
          val |-> Traceback(l1.val, l2.val, BuildMatrix(l1.val, l2.val, sc), sc)]

\* calculateDistanceFromAlignment on the result of a pairwise call that
\* did not throw
CallDistance(call, sc) ==
  IF call.err # "none" THEN [err |-> call.err, val |-> 0]
  ELSE calculateDistanceFromAlignment(call.val, sc)

\* the scan of progressiveAlignment for the closest pair, from the k-th
\* pair on; nb counts the calls of _buildMatrix
RECURSIVE NearestFrom(_, _, _, _, _, _, _)

\* the end of the body of the inner loop, for the pair (i, j) and its distance
NearestUpdate(seqs, nodes, sc, prs, k, best, nb, i, j, distance) ==
  IF distance.err # "none"
    THEN [err |-> distance.err, best |-> best, built |-> nb + 1]
  ELSE IF ~best.has \/ distance.val < best.minDistance
    THEN NearestFrom(seqs, nodes, sc, prs, k + 1,
           [has |-> TRUE, minDistance |-> distance.val,
            minIndex1 |-> i, minIndex2 |-> j], nb + 1)
  ELSE NearestFrom(seqs, nodes, sc, prs, k + 1, best, nb + 1)

NearestFrom(seqs, nodes, sc, prs, k, best, nb) ==
  IF k > Len(prs) THEN [err |-> "none", best |-> best, built |-> nb]
  ELSE NearestUpdate(seqs, nodes, sc, prs, k, best, nb, prs[k][1], prs[k][2],
         CallDistance(PairwiseCall(Lookup(seqs, nodes[prs[k][1] + 1]),
                                   Lookup(seqs, nodes[prs[k][2] + 1]), sc), sc))

\* align(sequence, alignedSequence), from the k-th base on
RECURSIVE AlignFrom(_, _, _, _, _)
AlignFrom(sequence, alignedSequence, k, seqIndex, aligned) ==
  IF k > Len(alignedSequence) THEN aligned
  ELSE IF seqIndex < Len(sequence) /\ alignedSequence[k] = sequence[seqIndex + 1]
    THEN AlignFrom(sequence, alignedSequence, k + 1, seqIndex + 1,
                   Append(aligned, alignedSequence[k]))
    ELSE AlignFrom(sequence, alignedSequence, k + 1, seqIndex, Append(aligned, Gap))

align(sequence, alignedSequence) == AlignFrom(sequence, alignedSequence, 1, 0, <<>>)

\* an iteration of progressiveAlignment that threw e after nb calls of
\* _buildMatrix
StepFailed(e, nodes, profiles, nb) ==
  [err |-> e, nodes |-> nodes, profiles |-> profiles, built |-> nb]

\* const [alignedSeq1, alignedSeq2] = <the result of the pairwise call>
CallPair(call) ==
  IF call.err # "none" THEN [err |-> call.err, val |-> <<>>]
  ELSE Destructure(call.val)

\* the end of an iteration: the two profiles are updated and the two
\* guide-tree entries become one merged node; pair is [alignedSeq1, alignedSeq2]
MergeProfiles(nodes, profiles, minIndex1, minIndex2, index1, index2, pair, nb) ==
  IF pair.err # "none" THEN StepFailed(pair.err, nodes, profiles, nb)
  ELSE [err |-> "none",
        nodes |-> [Splice1(nodes, minIndex2) EXCEPT
                     ![minIndex1 + 1] = MergedNode(index1, index2)],
        profiles |-> [[profiles EXCEPT
                        ![index1 + 1] = align(profiles[index1 + 1], pair.val[1])]
                      EXCEPT
                        ![index2 + 1] = align(profiles[index2 + 1], pair.val[2])],
        built |-> nb]

\* the part of an iteration after the scan
AlignClosest(seqs, nodes, profiles, sc, scan) ==
  IF scan.err # "none" THEN StepFailed(scan.err, nodes, profiles, scan.built)
  \* guideTree[-1] is undefined, and so is the sequence it names
  ELSE IF ~scan.best.has THEN StepFailed("TypeError", nodes, profiles, scan.built + 1)
  ELSE MergeProfiles(nodes, profiles, scan.best.minIndex1, scan.best.minIndex2,
         nodes[scan.best.minIndex1 + 1].members[1],
         nodes[scan.best.minIndex2 + 1].members[1],
         CallPair(PairwiseCall(Lookup(seqs, nodes[scan.best.minIndex1 + 1]),
                               Lookup(seqs, nodes[scan.best.minIndex2 + 1]), sc)),
         scan.built + 1)

NothingNearest == [has |-> FALSE, minDistance |-> 0, minIndex1 |-> -1, minIndex2 |-> -1]

\* one iteration of the while loop of progressiveAlignment
ProgressiveStep(seqs, nodes, profiles, sc) ==
  AlignClosest(seqs, nodes, profiles, sc,
    NearestFrom(seqs, nodes, sc, IndexPairs(Len(nodes)), 1, NothingNearest, 0))

----------------------------------------------------------------------------
(* formatMultipleAlignment *)

\* chunks.join(' ')
RECURSIVE JoinWithSpace(_)
JoinWithSpace(chunks) ==
  IF chunks = <<>> THEN <<>>
  ELSE IF Len(chunks) = 1 THEN chunks[1]
  ELSE chunks[1] \o <<" ">> \o JoinWithSpace(Tail(chunks))

\* the row pushed for sequence j (0-based) in the block starting at column i
SequenceRow(sequence, j, i, chunkSize, basePerChunk) ==
  LET indexLine == PadStart(NumToString(j * 2), 4) \o <<" ">>
      sequenceLine == Slice(sequence, i, i + chunkSize)
  IN <<indexLine, JoinWithSpace(chunkString(sequenceLine, basePerChunk))>>

\* the rows of the block starting at column i: one per sequence, then ['']
BlockRows(seqs, i, chunkSize, basePerChunk) ==
  [j \in 1..Len(seqs) |-> SequenceRow(seqs[j], j - 1, i, chunkSize, basePerChunk)]
    \o << <<<<>>>> >>

\* formatMultipleAlignment(alignedSequences, basePerChunk, chunksPerLine)
formatMultipleAlignment(seqs, basePerChunk, chunksPerLine) ==
  IF seqs = <<>>
    \* alignedSequences[0].length: the length of undefined
    THEN [err |-> "TypeError", val |-> <<>>]
  ELSE LET alignmentLength == Len(seqs[1])
           chunkSize == basePerChunk * chunksPerLine
           nBlocks == (alignmentLength + chunkSize - 1) \div chunkSize
       IN IF \E b \in 0..(nBlocks - 1), j \in 1..Len(seqs) :
                 Slice(seqs[j], b * chunkSize, (b + 1) * chunkSize) = <<>>
            \* match() returns null for an empty sequenceLine: null.join throws
            THEN [err |-> "TypeError", val |-> <<>>]
            ELSE [err |-> "none",
                  val |-> Flatten([b \in 1..nBlocks |->
                            BlockRows(seqs, (b - 1) * chunkSize, chunkSize, basePerChunk)])]

----------------------------------------------------------------------------
(* Entry points multipleSequenceAlignment, calculateDistanceMatrix,        *)
(* constructGuideTree, progressiveAlignment, formatMultipleAlignment and   *)
(* _formatAsArray, each called on its own                                  *)

WalkUnchanged == UNCHANGED <<matrix, start, walkI, walkJ, seq1_aligned,
                             seq2_aligned, broke>>

\* the first error among the results rs of cleanup, or "none"
RECURSIVE FirstError(_)
FirstError(rs) ==
  IF rs = <<>> THEN "none"
  ELSE IF Head(rs).err # "none" THEN Head(rs).err
  ELSE FirstError(Tail(rs))

\* sequences = sequences.map(cleanup)
MSACleanup ==
  /\ pc = "msa_cleanup"
  /\ LET rs == [k \in 1..Len(sequences) |-> cleanup(sequences[k])]
         e  == FirstError(rs)
     IN IF e # "none"
          THEN /\ status' = e /\ pc' = "done" /\ UNCHANGED sequences
          ELSE /\ sequences' = [k \in 1..Len(rs) |-> rs[k].val]
               /\ pc' = "cdm" /\ UNCHANGED status
  /\ UNCHANGED <<op, input, score, chunking, built, alignment, distanceMatrix,
                 clusters, merges, guideTree, alignedSequences, output>>
  /\ WalkUnchanged

\* const distanceMatrix = calculateDistanceMatrix(sequences, ...)
CalculateDistanceMatrix ==
  /\ pc = "cdm"
  /\ LET r == calculateDistanceMatrix(sequences, score)
     IN /\ built' = built + r.built
        /\ distanceMatrix' = r.val
        /\ IF r.err # "none" THEN status' = r.err /\ pc' = "done"
           ELSE IF op = "calculateDistanceMatrix" THEN status' = "ok" /\ pc' = "done"
           ELSE pc' = "cgt_init" /\ UNCHANGED status
  /\ UNCHANGED <<op, input, sequences, score, chunking, alignment, clusters,
                 merges, guideTree, alignedSequences, output>>
  /\ WalkUnchanged

\* let clusters = distanceMatrix.map((_, index) => [index])
GuideTreeInit ==
  /\ pc = "cgt_init"
  /\ clusters' = [k \in 1..Len(distanceMatrix) |-> <<k - 1>>]
  /\ merges' = 0
  /\ pc' = "cgt_loop"
  /\ UNCHANGED <<op, input, status, sequences, score, chunking, built, alignment,
                 distanceMatrix, guideTree, alignedSequences, output>>
  /\ WalkUnchanged

\* one iteration of the while loop of constructGuideTree
GuideTreeMerge ==
  /\ pc = "cgt_loop"
  /\ Len(clusters) > 1
  /\ LET best == ClosestClusters(clusters, distanceMatrix)
     IN IF ~best.has
          \* clusters[-1] is undefined: concat of undefined throws
          THEN /\ status' = "TypeError" /\ pc' = "done"
               /\ UNCHANGED <<clusters, merges>>
          ELSE /\ clusters' = MergeClusters(clusters, best.minIndex1, best.minIndex2)
               /\ merges' = merges + 1
               /\ UNCHANGED <<status, pc>>
  /\ UNCHANGED <<op, input, sequences, score, chunking, built, alignment,
                 distanceMatrix, guideTree, alignedSequences, output>>
  /\ WalkUnchanged

\* the loop of constructGuideTree ends: return clusters[0]
GuideTreeReturn ==
  /\ pc = "cgt_loop"
  /\ ~(Len(clusters) > 1)
  /\ guideTree' = GuideTreeOf(clusters)
  /\ IF op = "constructGuideTree" THEN status' = "ok" /\ pc' = "done"
     ELSE pc' = "pa_init" /\ UNCHANGED status
  /\ UNCHANGED <<op, input, sequences, score, chunking, built, alignment,
                 distanceMatrix, clusters, merges, alignedSequences, output>>
  /\ WalkUnchanged

\* progressiveAlignment up to the first test of its while loop; the length
\* of an undefined guide tree throws
ProgressiveInit ==
  /\ pc = "pa_init"
  /\ alignedSequences' = sequences
  /\ merges' = 0
  /\ IF guideTree.defined THEN pc' = "pa_loop" /\ UNCHANGED status
     ELSE status' = "TypeError" /\ pc' = "done"
  /\ UNCHANGED <<op, input, sequences, score, chunking, built, alignment,
                 distanceMatrix, clusters, guideTree, output>>
  /\ WalkUnchanged

\* one iteration of the while loop of progressiveAlignment
ProgressiveMerge ==
  /\ pc = "pa_loop"
  /\ Len(guideTree.nodes) > 1
  /\ LET r == ProgressiveStep(sequences, guideTree.nodes, alignedSequences, score)
     IN /\ built' = built + r.built
        /\ guideTree' = [guideTree EXCEPT !.nodes = r.nodes]
        /\ alignedSequences' = r.profiles
        /\ IF r.err # "none"
             THEN status' = r.err /\ pc' = "done" /\ UNCHANGED merges
             ELSE merges' = merges + 1 /\ UNCHANGED <<status, pc>>
  /\ UNCHANGED <<op, input, sequences, score, chunking, alignment,
                 distanceMatrix, clusters, output>>
  /\ WalkUnchanged

\* the loop of progressiveAlignment ends: return the joined profiles
ProgressiveReturn ==
  /\ pc = "pa_loop"
  /\ ~(Len(guideTree.nodes) > 1)
  /\ IF op = "progressiveAlignment" THEN status' = "ok" /\ pc' = "done"
     ELSE pc' = "fma" /\ UNCHANGED status
  /\ UNCHANGED <<op, input, sequences, score, chunking, built, alignment,
                 distanceMatrix, clusters, merges, guideTree, alignedSequences,
                 output>>
  /\ WalkUnchanged

\* const output = formatMultipleAlignment(alignedSequences, ...); return output
FormatMultiple ==
  /\ pc = "fma"
  /\ LET r == formatMultipleAlignment(alignedSequences, chunking[1], chunking[2])
     IN /\ output' = r.val
        /\ status' = IF r.err = "none" THEN "ok" ELSE r.err
  /\ pc' = "done"
  /\ UNCHANGED <<op, input, sequences, score, chunking, built, alignment,
                 distanceMatrix, clusters, merges, guideTree, alignedSequences>>
  /\ WalkUnchanged

\* _formatAsArray(alignment, basePerChunk, chunksPerLine) called on its own
FormatPair ==
  /\ pc = "faa"
  /\ LET r == FormatAsArray(alignment, chunking[1], chunking[2])
     IN /\ output' = r.val
        /\ status' = IF r.err = "none" THEN "ok" ELSE r.err
  /\ pc' = "done"
  /\ UNCHANGED <<op, input, sequences, score, chunking, built, alignment,
                 distanceMatrix, clusters, merges, guideTree, alignedSequences>>
  /\ WalkUnchanged

----------------------------------------------------------------------------
(* Arguments of the calls *)

Batches(S, n) == UNION {[1..k -> S] : k \in 0..n}

NonEmpty(S) == S \ {<<>>}

\* the batch of the scenario ["AAAA", "AAAA", "AAAA"]
FourA == <<"A", "A", "A", "A">>
ScenarioBatch == <<FourA, FourA, FourA>>

\* distances between two sequences
DistValues == {-1, 1}

\* the symmetric n x n matrices over DistValues with a zero diagonal, as
\* calculateDistanceMatrix fills them
SymmetricMatrices(n) ==
  LET above == {q \in (1..n) \X (1..n) : q[1] < q[2]}
  IN {[a \in 1..n |-> [b \in 1..n |->
        IF a = b THEN 0 ELSE IF a < b THEN f[<<a, b>>] ELSE f[<<b, a>>]]] :
      f \in [above -> DistValues]}

\* the orders of the leaves 0..n-1
LeafOrders(n) ==
  {[k \in 1..n |-> LeafNode(p[k])] :
     p \in {q \in [1..n -> 0..(n - 1)] : \A a, b \in 1..n : a # b => q[a] # q[b]}}

\* aligned strings handed to a formatter
FmtAlphabet == Alphabet \cup {Gap}
FmtBatchSizes == {0, 1, 2}

InitMSACall ==
  /\ op = "multipleSequenceAlignment"
  /\ pc = "msa_cleanup"
  /\ input \in Batches(SeqsUpTo(RawAlphabet, MaxBatchLen), MaxBatch) \cup {ScenarioBatch}
  /\ sequences = input
  /\ score \in ScoreSet
  /\ chunking = <<DefaultBasePerChunk, DefaultChunksPerLine>>
  /\ distanceMatrix = <<>>
  /\ guideTree = NoGuideTree
  /\ Fresh

InitDistanceCall ==
  /\ op = "calculateDistanceMatrix"
  /\ pc = "cdm"
  /\ input \in Batches(NonEmpty(SeqsUpTo(Alphabet, MaxBatchLen)), MaxBatch)
  /\ sequences = input
  /\ score \in ScoreSet
  /\ chunking = <<DefaultBasePerChunk, DefaultChunksPerLine>>
  /\ distanceMatrix = <<>>
  /\ guideTree = NoGuideTree
  /\ Fresh

InitGuideTreeCall ==
  /\ op = "constructGuideTree"
  /\ pc = "cgt_init"
  /\ input = <<>>
  /\ sequences = <<>>
  /\ score = DefaultScore
  /\ chunking = <<DefaultBasePerChunk, DefaultChunksPerLine>>
  /\ \E n \in 0..MaxLeaves : distanceMatrix \in SymmetricMatrices(n)
  /\ guideTree = NoGuideTree
  /\ Fresh

InitProgressiveCall ==
  /\ op = "progressiveAlignment"
  /\ pc = "pa_init"
  /\ input \in Batches(NonEmpty(SeqsUpTo(Alphabet, MaxBatchLen)), MaxBatch)
  /\ sequences = input
  /\ score \in ScoreSet
  /\ chunking = <<DefaultBasePerChunk, DefaultChunksPerLine>>
  /\ distanceMatrix = <<>>
  /\ \E nodes \in LeafOrders(Len(input)) :
       guideTree = [defined |-> Len(input) > 0, nodes |-> nodes]
  /\ Fresh

InitMSA == InitMSACall \/ InitDistanceCall \/ InitGuideTreeCall \/ InitProgressiveCall

NextMSA ==
  \/ MSACleanup
  \/ CalculateDistanceMatrix
  \/ GuideTreeInit
  \/ GuideTreeMerge
  \/ GuideTreeReturn
  \/ ProgressiveInit
  \/ ProgressiveMerge
  \/ ProgressiveReturn
  \/ FormatMultiple

SpecMSA == InitMSA /\ [][NextMSA]_vars

InitFormatPairCall ==
  /\ op = "_formatAsArray"
  /\ pc = "faa"
  /\ input = <<>>
  /\ sequences = <<>>
  /\ score = DefaultScore
  /\ chunking \in (1..MaxChunk) \X (1..MaxChunk)
  /\ distanceMatrix = <<>>
  /\ guideTree = NoGuideTree
  /\ status = "running"
  /\ matrix = <<>>
  /\ built = 0
  /\ start = <<0, 0>>
  /\ walkI = 0
  /\ walkJ = 0
  /\ seq1_aligned = <<>>
  /\ seq2_aligned = <<>>
  /\ broke = FALSE
  /\ \E a1, a2 \in SeqsUpTo(FmtAlphabet, MaxFmtLen) :
       alignment = [kind |-> "object", seq1_aligned |-> a1, seq2_aligned |-> a2]
  /\ clusters = <<>>
  /\ merges = 0
  /\ alignedSequences = <<>>
  /\ output = <<>>

InitFormatMultipleCall ==
  /\ op = "formatMultipleAlignment"
  /\ pc = "fma"
  /\ input = <<>>
  /\ sequences = <<>>
  /\ score = DefaultScore
  /\ chunking \in (1..MaxChunk) \X (1..MaxChunk)
  /\ distanceMatrix = <<>>
  /\ guideTree = NoGuideTree
  /\ status = "running"
  /\ matrix = <<>>
  /\ built = 0
  /\ start = <<0, 0>>
  /\ walkI = 0
  /\ walkJ = 0
  /\ seq1_aligned = <<>>
  /\ seq2_aligned = <<>>
  /\ broke = FALSE
  /\ alignment = NoAlignment
  /\ clusters = <<>>
  /\ merges = 0
  /\ alignedSequences \in UNION {[1..n -> SeqsUpTo(FmtAlphabet, MaxFmtLen)] :
                                  n \in FmtBatchSizes}
  /\ output = <<>>

InitFormat == InitFormatPairCall \/ InitFormatMultipleCall

NextFormat == FormatPair \/ FormatMultiple

SpecFormat == InitFormat /\ [][NextFormat]_vars

----------------------------------------------------------------------------
(* align called on its own: the existing profile of sequences[1] (input[1]) *)
(* is spliced with the aligned string a pairwise alignment of sequences[1]  *)
(* with sequences[2] returns for it                                         *)

\* the profiles of sequence s: s with gaps inserted
ProfilesOf(s) ==
  {q \in SeqsUpTo(Alphabet \cup {Gap}, MaxProfileLen) :
     SelectSeq(q, LAMBDA c : c # Gap) = s}

InitSpliceCall ==
  /\ op = "align"
  /\ pc = "al_pair"
  /\ sequences \in NonEmpty(SeqsUpTo(Alphabet, MaxSpliceLen))
                     \X NonEmpty(SeqsUpTo(Alphabet, MaxSpliceLen))
  /\ \E profile \in ProfilesOf(sequences[1]) : input = <<profile>>
  /\ score \in ScoreSet
  /\ chunking = <<DefaultBasePerChunk, DefaultChunksPerLine>>
  /\ distanceMatrix = <<>>
  /\ guideTree = NoGuideTree
  /\ status = "running"
  /\ matrix = <<>>
  /\ built = 0
  /\ start = <<0, 0>>
  /\ walkI = 0
  /\ walkJ = 0
  /\ seq1_aligned = <<>>
  /\ seq2_aligned = <<>>
  /\ broke = FALSE
  /\ alignment = NoAlignment
  /\ clusters = <<>>
  /\ merges = 0
  /\ alignedSequences = input
  /\ output = <<>>

\* the pairwise alignment whose first string is handed to align
SplicePairwise ==
  /\ pc = "al_pair"
  /\ alignment' = PairwiseAlignment(sequences[1], sequences[2], score)
  /\ built' = built + 1
  /\ pc' = "al_splice"
  /\ UNCHANGED <<op, input, status, sequences, score, chunking, distanceMatrix,
                 clusters, merges, guideTree, alignedSequences, output>>
  /\ WalkUnchanged

\* alignedSequences[index1] = align(alignedSequences[index1], alignedSeq1)
SpliceAlign ==
  /\ pc = "al_splice"
  /\ alignedSequences' = <<align(alignedSequences[1], alignment.seq1_aligned)>>
  /\ merges' = merges + 1
  /\ status' = "ok"
  /\ pc' = "done"
  /\ UNCHANGED <<op, input, sequences, score, chunking, built, alignment,
                 distanceMatrix, clusters, guideTree, output>>
  /\ WalkUnchanged

NextSplice == SplicePairwise \/ SpliceAlign

SpecSplice == InitSpliceCall /\ [][NextSplice]_vars

----------------------------------------------------------------------------
(* The pairwise formatter, inside showAlignment and called on its own *)

InitPairwise == InitAlign \/ InitFormatPairCall

NextPairwise ==
  \/ ShowAlignmentCleanup
  \/ ShowAlignmentBuild
  \/ TracebackScan
  \/ TracebackWalk
  \/ TracebackReturn
  \/ ShowAlignmentFormat
  \/ FormatPair

SpecPairwise == InitPairwise /\ [][NextPairwise]_vars

----------------------------------------------------------------------------
(* Every entry point *)

Init == InitAlign \/ InitMSA \/ InitFormat \/ InitSpliceCall

Next ==
  \/ ShowAlignmentCleanup
  \/ ShowAlignmentBuild
  \/ TracebackScan
  \/ TracebackWalk
  \/ TracebackReturn
  \/ ShowAlignmentFormat
  \/ MSACleanup
  \/ CalculateDistanceMatrix
  \/ GuideTreeInit
  \/ GuideTreeMerge
  \/ GuideTreeReturn
  \/ ProgressiveInit
  \/ ProgressiveMerge
  \/ ProgressiveReturn
  \/ FormatMultiple
  \/ FormatPair
  \/ SplicePairwise
  \/ SpliceAlign

Spec == Init /\ [][Next]_vars

----------------------------------------------------------------------------
(* Properties *)

HasGap(str) == \E k \in 1..Len(str) : str[k] = Gap

\* _traceback has returned inside showAlignment
TracebackReturned ==
  op = "showAlignment" /\ pc \in {"sa_format", "done"} /\ built = 1

\* C1: aligning a non-empty sequence s with itself under match=1,
\* mismatch=-1, gap=-1 returns (s, s): both aligned strings equal s and
\* hold no gap symbol.
C1_SelfAlignment ==
  (TracebackReturned /\ score = DefaultScore /\ sequences[1] = sequences[2])
    => /\ alignment.seq1_aligned = sequences[1]
       /\ alignment.seq2_aligned = sequences[1]
       /\ ~HasGap(alignment.seq1_aligned)
       /\ ~HasGap(alignment.seq2_aligned)

C1_Witness ==
  /\ TracebackReturned
  /\ score = DefaultScore
  /\ sequences = << <<"A", "T", "A">>, <<"A", "T", "A">> >>
  /\ alignment.seq1_aligned = <<"A", "T", "A">>

\* C2: the two strings returned by pairwise alignment are at least as long
\* as the longer of the two input sequences.
C2_LengthAtLeastMax ==
  TracebackReturned
    => /\ Len(alignment.seq1_aligned) >= Max2(Len(sequences[1]), Len(sequences[2]))
       /\ Len(alignment.seq2_aligned) >= Max2(Len(sequences[1]), Len(sequences[2]))

\* C3: after every step of the traceback walk seq1_aligned and seq2_aligned
\* hold the same number of symbols, and the two returned strings have equal
\* length.
C3_EqualLength ==
  /\ Len(seq1_aligned) = Len(seq2_aligned)
  /\ Len(alignment.seq1_aligned) = Len(alignment.seq2_aligned)

\* the walk took an up-step and a left-step, and the strings were returned
C3_Witness ==
  /\ TracebackReturned
  /\ HasGap(alignment.seq1_aligned)
  /\ HasGap(alignment.seq2_aligned)
  /\ Len(alignment.seq1_aligned) >= 2

\* an argument that is the empty string
HasEmptyInput == \E k \in 1..Len(input) : input[k] = <<>>

\* C4: when any input sequence of a pairwise call or of an MSA batch is
\* empty, the call fails with InvalidInput and _buildMatrix is never
\* entered in that call.
C4_EmptyRejected ==
  (op \in {"showAlignment", "multipleSequenceAlignment"} /\ HasEmptyInput)
    => /\ built = 0
       /\ pc \in {"sa_cleanup", "msa_cleanup", "done"}
       /\ pc = "done" => status = "InvalidInput"

C4_Witness ==
  /\ op = "multipleSequenceAlignment"
  /\ Len(input) = 3
  /\ input[1] # <<>> /\ input[2] # <<>> /\ input[3] = <<>>
  /\ pc = "done"
  /\ status = "InvalidInput"
  /\ built = 0

\* C5: a walk that stands at a non-boundary cell where none of the three
\* predecessor equalities holds is reported as AmbiguousTraceback; the call
\* never ends normally with the walk stopped there.
C5_AmbiguousReported ==
  (op = "showAlignment" /\ pc = "done" /\ broke /\ walkI > 0 /\ walkJ > 0)
    => status = "AmbiguousTraceback"

\* C6: with match=1, mismatch=-1, gap=-1 the distance computed by
\* calculateDistanceFromAlignment on the alignment returned for (s1, s2) is
\* at most max(|s1|,|s2|) * match, and equals it only when s1 = s2.
C6_DistanceBounded ==
  (op = "calculateDistanceMatrix" /\ pc = "done" /\ Len(input) = 2
     /\ score = DefaultScore)
    => /\ status = "ok"
       /\ distanceMatrix[1][2]
            <= Max2(Len(input[1]), Len(input[2])) * score[1]
       /\ distanceMatrix[1][2] = Max2(Len(input[1]), Len(input[2])) * score[1]
            => input[1] = input[2]

\* C7: for an N x N distance matrix, N >= 1, constructGuideTree ends after
\* exactly N-1 merge steps; every step leaves one cluster fewer, and the
\* loop stops exactly when one cluster remains.
C7_MergeCount ==
  (op = "constructGuideTree" /\ Len(distanceMatrix) >= 1)
    => /\ pc = "cgt_loop" =>
            /\ Len(clusters) + merges = Len(distanceMatrix)
            /\ Len(clusters) >= 1
       /\ pc = "done" =>
            /\ status = "ok"
            /\ merges = Len(distanceMatrix) - 1
            /\ Len(clusters) = 1

C7_Witness ==
  /\ op = "constructGuideTree"
  /\ Len(distanceMatrix) = 3
  /\ pc = "done"
  /\ status = "ok"
  /\ merges = 2
  /\ clusters = << <<0, 2, 1>> >>

\* C8: multipleSequenceAlignment on ["AAAA","AAAA","AAAA"] with
\* basePerChunk=10, chunksPerLine=5, match=1, mismatch=-1, gap=-1 completes
\* and yields three identical aligned rows of length 4 without a gap.
C8_ScenarioAligned ==
  (op = "multipleSequenceAlignment" /\ input = ScenarioBatch
     /\ score = DefaultScore /\ pc = "done")
    => /\ status = "ok"
       /\ alignedSequences = ScenarioBatch

\* C9: for a batch of N >= 1 non-empty sequences progressiveAlignment
\* returns one profile per input sequence, and all N returned profiles
\* have the same length.
C9_OneProfilePerSequence ==
  (op = "progressiveAlignment" /\ Len(input) >= 1 /\ pc = "done")
    => /\ status = "ok"
       /\ Len(alignedSequences) = Len(input)
       /\ \A a, b \in 1..Len(alignedSequences) :
            Len(alignedSequences[a]) = Len(alignedSequences[b])

\* the chunk cells of the rows first, first + step, ... of a table, joined
RECURSIVE ChunkCells(_, _, _)
ChunkCells(table, first, step) ==
  IF first > Len(table) THEN <<>>
  ELSE Flatten(Tail(table[first])) \o ChunkCells(table, first + step, step)

WithoutSpaces(str) == SelectSeq(str, LAMBDA c : c # " ")

EqualLengths(strs) == \A a, b \in 1..Len(strs) : Len(strs[a]) = Len(strs[b])

\* C10: for aligned strings of equal length L >= 1 and chunk sizes >= 1,
\* the chunk cells of a string, taken over all blocks in order without the
\* label cells and separator rows and with the inserted spaces removed,
\* spell the string again; in _formatAsArray and in formatMultipleAlignment.
C10_RoundTrip ==
  /\ (op = "_formatAsArray" /\ pc = "done"
        /\ Len(alignment.seq1_aligned) >= 1
        /\ Len(alignment.seq1_aligned) = Len(alignment.seq2_aligned))
       => /\ status = "ok"
          /\ ChunkCells(output, 1, 4) = alignment.seq1_aligned
          /\ ChunkCells(output, 3, 4) = alignment.seq2_aligned
  /\ (op = "formatMultipleAlignment" /\ pc = "done"
        /\ alignedSequences # <<>>
        /\ Len(alignedSequences[1]) >= 1
        /\ EqualLengths(alignedSequences))
       => /\ status = "ok"
          /\ \A n \in 1..Len(alignedSequences) :
               WithoutSpaces(ChunkCells(output, n, Len(alignedSequences) + 1))
                 = alignedSequences[n]

C10_Witness ==
  /\ op = "formatMultipleAlignment"
  /\ pc = "done"
  /\ status = "ok"
  /\ chunking = <<1, 2>>
  /\ alignedSequences = << <<"A", "-", "T">>, <<"A", "T", "T">> >>
  /\ Len(output) = 6
  /\ output[1][2] = <<"A", " ", "-">>
  /\ output[4][2] = <<"T">>

\* the symbol the symbol track shows for a column holding x over y
ColumnSymbol(x, y) ==
  IF x = Gap \/ y = Gap THEN " " ELSE IF x = y THEN "|" ELSE "x"

\* a pair of strings such as pairwise alignment returns: equal lengths and
\* no column with a gap in both
IsAlignmentResult(al) ==
  /\ Len(al.seq1_aligned) = Len(al.seq2_aligned)
  /\ \A k \in 1..Len(al.seq1_aligned) :
       ~(al.seq1_aligned[k] = Gap /\ al.seq2_aligned[k] = Gap)

\* the pairwise formatter has returned a table
PairFormatted ==
  \/ op = "showAlignment" /\ pc = "done" /\ built = 1
  \/ op = "_formatAsArray" /\ pc = "done" /\ IsAlignmentResult(alignment)

\* C11: in the table of the pairwise formatter the symbol track shows, for
\* every column of the alignment result, "|" for an equal non-gap pair, a
\* space when either symbol is a gap and "x" for two different non-gap
\* symbols; every block is the rows sequence-1 line, symbol-track line
\* labelled with the block's 1-based start column, sequence-2 line (and the
\* separator row).
C11_SymbolTrackAndRowOrder ==
  PairFormatted =>
    LET a1 == alignment.seq1_aligned
        a2 == alignment.seq2_aligned
        lineSize == chunking[1] * chunking[2]
        nBlocks == (Len(a1) + lineSize - 1) \div lineSize
    IN /\ status = "ok"
       /\ Len(output) = 4 * nBlocks
       /\ ChunkCells(output, 2, 4) = [k \in 1..Len(a1) |-> ColumnSymbol(a1[k], a2[k])]
       /\ \A b \in 1..nBlocks :
            /\ Flatten(Tail(output[4 * b - 3]))
                 = Slice(a1, (b - 1) * lineSize, b * lineSize)
            /\ Head(output[4 * b - 3]) = <<>>
            /\ Head(output[4 * b - 2]) = NumToString((b - 1) * lineSize + 1)
            /\ Flatten(Tail(output[4 * b - 1]))
                 = Slice(a2, (b - 1) * lineSize, b * lineSize)
            /\ Head(output[4 * b - 1]) = <<>>

\* two blocks, and the three symbols of the track
C11_Witness ==
  /\ op = "_formatAsArray"
  /\ pc = "done"
  /\ status = "ok"
  /\ chunking = <<1, 2>>
  /\ alignment.seq1_aligned = <<"A", "-", "T">>
  /\ alignment.seq2_aligned = <<"A", "T", "A">>
  /\ output[2] = << <<"1">>, <<"|">>, <<" ">> >>
  /\ output[6] = << <<"3">>, <<"x">> >>

\* C12: when the aligned strings handed to a formatter do not all have the
\* same length, the call fails with InvalidInput and returns no table.
C12_UnequalRejected ==
  (/\ pc = "done"
   /\ \/ /\ op = "_formatAsArray"
         /\ Len(alignment.seq1_aligned) # Len(alignment.seq2_aligned)
      \/ /\ op = "formatMultipleAlignment"
         /\ ~EqualLengths(alignedSequences))
    => /\ status = "InvalidInput"
       /\ output = <<>>

\* _buildMatrix has returned inside showAlignment
MatrixBuilt == op = "showAlignment" /\ built = 1

\* C13: the matrix _buildMatrix returns for s1, s2 has |s1|+1 rows of
\* |s2|+1 cells, M[i][0] = i*gap and M[0][j] = j*gap (not clamped to 0), and
\* every interior cell is max(diag, up, left, 0).
C13_MatrixRecurrence ==
  MatrixBuilt =>
    LET s1 == sequences[1]
        s2 == sequences[2]
    IN /\ Len(matrix) = Len(s1) + 1
       /\ \A i \in 0..Len(s1) : Len(matrix[i + 1]) = Len(s2) + 1
       /\ \A i \in 0..Len(s1) : At(matrix, i, 0) = i * score[3]
       /\ \A j \in 0..Len(s2) : At(matrix, 0, j) = j * score[3]
       /\ \A i \in 1..Len(s1), j \in 1..Len(s2) :
            LET diag == At(matrix, i - 1, j - 1)
                          + (IF s1[i] = s2[j] THEN score[1] ELSE score[2])
                up   == At(matrix, i - 1, j) + score[3]
                left == At(matrix, i, j - 1) + score[3]
            IN /\ At(matrix, i, j) \in {diag, up, left, 0}
               /\ At(matrix, i, j) >= diag
               /\ At(matrix, i, j) >= up
               /\ At(matrix, i, j) >= left
               /\ At(matrix, i, j) >= 0

\* a negative boundary next to an interior cell held up by the floor at 0
C13_Witness ==
  /\ MatrixBuilt
  /\ sequences = << <<"A", "T">>, <<"T", "T">> >>
  /\ score = DefaultScore
  /\ matrix = << <<0, -1, -2>>, <<-1, 0, 0>>, <<-2, 0, 1>> >>

\* C14: the traceback walk stops only when both the row index and the
\* column index are 0; it never ends at a cell with i > 0 or j > 0.
C14_WalkEndsAtOrigin ==
  TracebackReturned => (walkI = 0 /\ walkJ = 0)

\* cell <<i, j>> comes before cell <<a, b>> in the row-major scan
ScannedBefore(i, j, a, b) == i < a \/ (i = a /\ j < b)

\* the scan of _traceback has chosen the start cell
StartChosen ==
  op = "showAlignment" /\ pc \in {"tb_walk", "sa_format", "done"} /\ built = 1

\* C15: the traceback starts at the cell holding the maximum score over the
\* entire matrix, boundary row and column included; of several cells holding
\* the maximum it is the first one in row-major scan order.
C15_StartAtFirstMaximum ==
  StartChosen =>
    /\ start[1] \in 0..(Len(matrix) - 1)
    /\ start[2] \in 0..(Len(matrix[1]) - 1)
    /\ \A i \in 0..(Len(matrix) - 1), j \in 0..(Len(matrix[1]) - 1) :
         /\ At(matrix, i, j) <= At(matrix, start[1], start[2])
         /\ ScannedBefore(i, j, start[1], start[2])
              => At(matrix, i, j) < At(matrix, start[1], start[2])

\* the maximum is held by the boundary cells and by the corner cell (1, 1);
\* the walk starts at (0, 0), the first of them
C15_Witness ==
  /\ StartChosen
  /\ sequences = << <<"A">>, <<"T">> >>
  /\ score = <<1, 0, 0>>
  /\ matrix = << <<0, 0>>, <<0, 0>> >>
  /\ start = <<0, 0>>

WithoutGaps(str) == SelectSeq(str, LAMBDA c : c # Gap)

\* C19: without its gap symbols seq1_aligned is the substring
\* s1[iEnd .. maxI) and seq2_aligned is s2[jEnd .. maxJ), where (maxI, maxJ)
\* is the cell the walk started at and (iEnd, jEnd) the cell it stands at or
\* stopped at; no column holds a gap in both strings.
C19_AlignedAreSubstrings ==
  /\ (op = "showAlignment" /\ pc = "tb_walk") =>
       /\ WithoutGaps(Reverse(seq1_aligned)) = Slice(sequences[1], walkI, start[1])
       /\ WithoutGaps(Reverse(seq2_aligned)) = Slice(sequences[2], walkJ, start[2])
  /\ TracebackReturned =>
       /\ WithoutGaps(alignment.seq1_aligned) = Slice(sequences[1], walkI, start[1])
       /\ WithoutGaps(alignment.seq2_aligned) = Slice(sequences[2], walkJ, start[2])
       /\ \A k \in 1..Len(alignment.seq1_aligned) :
            ~(alignment.seq1_aligned[k] = Gap /\ alignment.seq2_aligned[k] = Gap)

\* a walk that started before the end of s1 and stopped after its
\* beginning: the aligned string is an inner substring of s1
C19_Witness ==
  /\ TracebackReturned
  /\ start[1] < Len(sequences[1])
  /\ walkI > 0
  /\ Len(alignment.seq1_aligned) >= 1

\* C17: for a batch of N >= 1 non-empty sequences the loop of
\* progressiveAlignment leaves one active entry fewer at each step and ends
\* without failure after N-1 merges with exactly one active entry.
C17_MergeLoopCompletes ==
  (op = "progressiveAlignment" /\ Len(input) >= 1)
    => /\ pc = "pa_loop" => Len(guideTree.nodes) + merges = Len(input)
       /\ pc = "done" =>
            /\ status = "ok"
            /\ merges = Len(input) - 1
            /\ Len(guideTree.nodes) = 1

\* the sum of the entries dm[x][y] of the original matrix over the members
\* x of cluster c1 and y of cluster c2
RECURSIVE CrossTotal(_, _, _)
CrossTotal(c1, c2, dm) ==
  IF c1 = <<>> THEN 0
  ELSE IF c2 = <<>> THEN 0
  ELSE dm[Head(c1) + 1][Head(c2) + 1]
         + CrossTotal(<<Head(c1)>>, Tail(c2), dm)
         + CrossTotal(Tail(c1), c2, dm)

\* mean(a, b) < mean(c, d) for clusters of cl, without division
MeanLess(cl, dm, a, b, c, d) ==
  CrossTotal(cl[a], cl[b], dm) * (Len(cl[c]) * Len(cl[d]))
    < CrossTotal(cl[c], cl[d], dm) * (Len(cl[a]) * Len(cl[b]))

\* the clusters after merging the a-th and the b-th (1-based, a < b)
Merged(cl, a, b) ==
  [k \in 1..(Len(cl) - 1) |->
     IF k = a THEN cl[a] \o cl[b] ELSE IF k < b THEN cl[k] ELSE cl[k + 1]]

\* C18: every iteration of constructGuideTree merges the pair of current
\* clusters with the smallest mean of the cross-member entries of the
\* original distance matrix, which is never updated; of several pairs with
\* that mean it merges the first one of the scan i ascending, j > i ascending.
C18_MergesClosestPair ==
  [][(op = "constructGuideTree" /\ pc = "cgt_loop" /\ Len(clusters) > 1)
       => /\ distanceMatrix' = distanceMatrix
          /\ \E a, b \in 1..Len(clusters) :
               /\ a < b
               /\ clusters' = Merged(clusters, a, b)
               /\ \A c, d \in 1..Len(clusters) :
                    c < d =>
                      /\ ~MeanLess(clusters, distanceMatrix, c, d, a, b)
                      /\ ScannedBefore(c, d, a, b)
                           => MeanLess(clusters, distanceMatrix, a, b, c, d)]_vars

\* four leaves: after (0, 1) was merged, the pair ({0, 1}, {2}) with the mean
\* 0 of -1 and 1 was merged, the first of two pairs with that mean, and not
\* the pair ({2}, {3}) at distance 1
C18_Witness ==
  /\ op = "constructGuideTree"
  /\ pc = "cgt_loop"
  /\ Len(distanceMatrix) = 4
  /\ distanceMatrix[1][3] = -1
  /\ distanceMatrix[2][3] = 1
  /\ distanceMatrix[1][4] = 1
  /\ distanceMatrix[2][4] = -1
  /\ distanceMatrix[3][4] = 1
  /\ merges = 2
  /\ clusters = << <<0, 1, 2>>, <<3>> >>

\* the elements of a occur in b in the same order
RECURSIVE IsSubsequence(_, _)
IsSubsequence(a, b) ==
  IF a = <<>> THEN TRUE
  ELSE IF b = <<>> THEN FALSE
  ELSE IF Head(a) = Head(b) THEN IsSubsequence(Tail(a), Tail(b))
  ELSE IsSubsequence(a, Tail(b))

\* C16: align never removes a symbol or gap of the existing profile and
\* never shortens it: the returned profile is at least as long as the
\* existing one and holds its symbols and gaps in order.
C16_ProfileNeverShrinks ==
  (op = "align" /\ pc = "done")
    => /\ Len(alignedSequences[1]) >= Len(input[1])
       /\ IsSubsequence(input[1], alignedSequences[1])

=============================================================================
